---- MODULE Spec2Model ----
(***************************************************************************)
(* Resilience core of the analytics-and-dashboards service:                *)
(*   - app/middleware/circuit_breaker.py  (CircuitBreaker + middleware)    *)
(*   - app/services/kafka_consumer.py     (KafkaService)                   *)
(*   - app/middleware/rate_limiter.py     (rate limiting)                  *)
(* Each mechanism has its own specification over the shared variables.     *)
(***************************************************************************)
EXTENDS Integers, Sequences, FiniteSets, TLC

(***************************************************************************)
(* Bounds of the model.                                                    *)
(***************************************************************************)
MaxFailureThreshold == 3
MaxSuccessThreshold == 2
MaxTimeout == 2
MaxTime == 3
MaxRequests == 3
MaxFailed == 3
MaxInflight == 2
MaxRetries == 2
MaxMessages == 2
MaxOverQuota == 2
MaxUsers == 3
MaxAddresses == 4

VARIABLES
    \* CircuitBreaker fields (circuit_breaker.py:41-55)
    failure_threshold, success_threshold, timeout,
    state, failure_count, success_count, last_failure_time, metrics,
    \* environment of the circuit breaker
    now,        \* the value time.time() returns
    inflight,   \* requests passed to call_next whose outcome is not yet recorded
    response,   \* what the last CircuitBreaker.call returned
    failRun,    \* history: on_failure calls recorded in Closed since the last on_success
    succRun,    \* history: on_success calls recorded in the latest HalfOpen episode
    admittedRun, \* history: requests passed on in the current HalfOpen episode
    \* KafkaService (kafka_consumer.py) and its settings (core/config.py)
    ENABLE_KAFKA, max_retries,
    kPc,        \* position of start_kafka_consumer
    attempt, is_connected, consumer, producer,
    sleepFor,   \* seconds the connect loop is sleeping for (0 when not sleeping)
    brokerUp,   \* whether the broker accepts connections
    failsInRun, \* history: failed attempts since the loop started or last cooled down
    rPc,        \* position of the _consume_messages task
    offset,     \* messages received so far
    cur,        \* the message being (or last) processed
    httpAttempt, last_exc,
    httpCalls,  \* history: outbound calls made for cur
    pendingDlq, \* the record whose send_and_wait is awaited
    dlqTopic,   \* records published on "analytics-dlq"
    sPc,        \* position of stop()
    \* rate limiting (rate_limiter.py, endpoints/examples/example_rate_limit.py)
    rlEndpoint, \* the rate-limited endpoint the requests go to
    rlCount,    \* requests counted per identity key in the current window
    rlCountLong, \* the same for the second limit of an endpoint that declares two
    rlResponse, \* the response to the last request
    REDIS_URL,  \* settings.REDIS_URL
    storage_uri,    \* the storage the limiter was created with
    redis_client,   \* the module's global Redis client
    redisUp,    \* whether the Redis server answers
    rlStarted,  \* the lifespan startup has run
    \* the functions that choose key and limit, applied to one request
    qRequest, qKey, qLimit

cbVars == <<failure_threshold, success_threshold, timeout, state, failure_count,
            success_count, last_failure_time, metrics, now, inflight, response,
            failRun, succRun, admittedRun>>

kConnVars == <<ENABLE_KAFKA, max_retries, kPc, attempt, is_connected, consumer, producer,
               sleepFor, brokerUp, failsInRun>>

kReadVars == <<rPc, offset, cur, httpAttempt, last_exc, httpCalls, pendingDlq, dlqTopic>>

kafkaVars == <<kConnVars, kReadVars, sPc>>

qVars == <<qRequest, qKey, qLimit>>

rlVars == <<rlEndpoint, rlCount, rlResponse, REDIS_URL, storage_uri, redis_client, redisUp,
            rlStarted, rlCountLong, qVars>>

vars == <<cbVars, kafkaVars, rlVars>>

(***************************************************************************)
(* CircuitBreaker                                                          *)
(***************************************************************************)
CLOSED == "closed"
OPEN == "open"
HALF_OPEN == "half_open"
CircuitState == {CLOSED, OPEN, HALF_OPEN}

\* Optional[float] = None
None == -1

\* Python truthiness of an Optional[float]: None and 0.0 are both falsy.
Truthy(t) == t # None /\ t # 0

\* `x or 0`
OrZero(t) == IF Truthy(t) THEN t ELSE 0

\* Request paths, as sequences of segments ("/api" "/health" is "/api/health").
Paths == { <<"/health">>, <<"/api", "/health">>, <<"/api", "/items">> }

excluded_paths == { <<"/health">>, <<"/docs">>, <<"/openapi.json">>, <<"/redoc">> }

\* Python `a in b` on strings
Contains(b, a) ==
    \E i \in 0..(Len(b) - Len(a)) : SubSeq(b, i + 1, i + Len(a)) = a

\* Python b.startswith(a)
StartsWith(b, a) == Len(a) <= Len(b) /\ SubSeq(b, 1, Len(a)) = a

\* should_exclude_path that matches the excluded strings as prefixes only
should_exclude_path_Prefix(path) == \E excluded \in excluded_paths : StartsWith(path, excluded)

should_exclude_path(path) == \E excluded \in excluded_paths : Contains(path, excluded)

Allow == [kind |-> "allow", retry_after |-> 0]
Reject(ra) == [kind |-> "reject", retry_after |-> ra]
NoResponse == [kind |-> "none", retry_after |-> 0]

\* The test of line 75, with t the first clock read.
TimeoutElapsed(t) == Truthy(last_failure_time) /\ (t - last_failure_time) > timeout

\* CircuitBreaker.call; t2 is the second clock read, made on the reject branch.
call(path, t2) ==
    IF should_exclude_path(path)
    THEN /\ response' = Allow
         /\ UNCHANGED <<state, success_count, metrics, now>>
    ELSE IF state = OPEN
         THEN IF TimeoutElapsed(now)
              THEN /\ state' = HALF_OPEN
                   /\ success_count' = 0
                   /\ metrics' = [metrics EXCEPT !.total_requests = @ + 1]
                   /\ response' = Allow
                   /\ UNCHANGED now
              ELSE /\ metrics' = [metrics EXCEPT !.total_requests = @ + 1,
                                                 !.rejected_requests = @ + 1]
                   /\ now' = t2
                   /\ response' = Reject(timeout - (t2 - OrZero(last_failure_time)))
                   /\ UNCHANGED <<state, success_count>>
         ELSE /\ metrics' = [metrics EXCEPT !.total_requests = @ + 1]
              /\ response' = Allow
              /\ UNCHANGED <<state, success_count, now>>

\* on_success that closes the breaker without resetting failure_count
on_success_KeepsFailureCount ==
    /\ IF state = HALF_OPEN
       THEN IF success_count + 1 >= success_threshold
            THEN /\ state' = CLOSED
                 /\ success_count' = 0
                 /\ UNCHANGED failure_count
            ELSE /\ success_count' = success_count + 1
                 /\ UNCHANGED <<state, failure_count>>
       ELSE IF state = CLOSED
            THEN /\ failure_count' = IF failure_count - 1 > 0 THEN failure_count - 1 ELSE 0
                 /\ UNCHANGED <<state, success_count>>
            ELSE UNCHANGED <<state, failure_count, success_count>>
    /\ UNCHANGED <<metrics, last_failure_time>>

\* on_success that forgets every failure at once in Closed
on_success_ResetsFailureCount ==
    /\ IF state = HALF_OPEN
       THEN IF success_count + 1 >= success_threshold
            THEN /\ state' = CLOSED
                 /\ failure_count' = 0
                 /\ success_count' = 0
            ELSE /\ success_count' = success_count + 1
                 /\ UNCHANGED <<state, failure_count>>
       ELSE IF state = CLOSED
            THEN /\ failure_count' = 0
                 /\ UNCHANGED <<state, success_count>>
            ELSE UNCHANGED <<state, failure_count, success_count>>
    /\ UNCHANGED <<metrics, last_failure_time>>

\* on_success that also closes an Open breaker
on_success_ClosesFromOpen ==
    /\ IF state = HALF_OPEN
       THEN IF success_count + 1 >= success_threshold
            THEN /\ state' = CLOSED
                 /\ failure_count' = 0
                 /\ success_count' = 0
            ELSE /\ success_count' = success_count + 1
                 /\ UNCHANGED <<state, failure_count>>
       ELSE IF state = CLOSED
            THEN /\ failure_count' = IF failure_count - 1 > 0 THEN failure_count - 1 ELSE 0
                 /\ UNCHANGED <<state, success_count>>
            ELSE /\ state' = CLOSED
                 /\ failure_count' = 0
                 /\ UNCHANGED success_count
    /\ UNCHANGED <<metrics, last_failure_time>>

\* on_success that closes the breaker and keeps counting the successes
on_success_KeepsSuccessCount ==
    /\ IF state = HALF_OPEN
       THEN IF success_count + 1 >= success_threshold
            THEN /\ state' = CLOSED
                 /\ failure_count' = 0
                 /\ success_count' = success_count + 1
            ELSE /\ success_count' = success_count + 1
                 /\ UNCHANGED <<state, failure_count>>
       ELSE IF state = CLOSED
            THEN /\ failure_count' = IF failure_count - 1 > 0 THEN failure_count - 1 ELSE 0
                 /\ UNCHANGED <<state, success_count>>
            ELSE UNCHANGED <<state, failure_count, success_count>>
    /\ UNCHANGED <<metrics, last_failure_time>>

on_success ==
    /\ IF state = HALF_OPEN
       THEN IF success_count + 1 >= success_threshold
            THEN /\ state' = CLOSED
                 /\ failure_count' = 0
                 /\ success_count' = 0
            ELSE /\ success_count' = success_count + 1
                 /\ UNCHANGED <<state, failure_count>>
       ELSE IF state = CLOSED
            THEN /\ failure_count' = IF failure_count - 1 > 0 THEN failure_count - 1 ELSE 0
                 /\ UNCHANGED <<state, success_count>>
            ELSE UNCHANGED <<state, failure_count, success_count>>
    /\ UNCHANGED <<metrics, last_failure_time>>

\* on_failure that opens only when failure_count exceeds the threshold
on_failure_StrictThreshold ==
    /\ metrics' = [metrics EXCEPT !.failed_requests = @ + 1]
    /\ last_failure_time' = now
    /\ IF state = HALF_OPEN
       THEN /\ state' = OPEN
            /\ success_count' = 0
            /\ UNCHANGED failure_count
       ELSE IF state = CLOSED
            THEN /\ failure_count' = failure_count + 1
                 /\ state' = IF failure_count + 1 > failure_threshold THEN OPEN ELSE CLOSED
                 /\ UNCHANGED success_count
            ELSE UNCHANGED <<state, failure_count, success_count>>

\* on_failure that reopens from HalfOpen but keeps the accumulated success_count
on_failure_KeepsSuccessCount ==
    /\ metrics' = [metrics EXCEPT !.failed_requests = @ + 1]
    /\ last_failure_time' = now
    /\ IF state = HALF_OPEN
       THEN /\ state' = OPEN
            /\ UNCHANGED <<failure_count, success_count>>
       ELSE IF state = CLOSED
            THEN /\ failure_count' = failure_count + 1
                 /\ state' = IF failure_count + 1 >= failure_threshold THEN OPEN ELSE CLOSED
                 /\ UNCHANGED success_count
            ELSE UNCHANGED <<state, failure_count, success_count>>

\* on_failure that tests the threshold before counting the failure
on_failure_ChecksBeforeCounting ==
    /\ metrics' = [metrics EXCEPT !.failed_requests = @ + 1]
    /\ last_failure_time' = now
    /\ IF state = HALF_OPEN
       THEN /\ state' = OPEN
            /\ success_count' = 0
            /\ UNCHANGED failure_count
       ELSE IF state = CLOSED
            THEN /\ failure_count' = failure_count + 1
                 /\ state' = IF failure_count >= failure_threshold THEN OPEN ELSE CLOSED
                 /\ UNCHANGED success_count
            ELSE UNCHANGED <<state, failure_count, success_count>>

\* on_failure that does not record the time of the failure
on_failure_NoTimestamp ==
    /\ metrics' = [metrics EXCEPT !.failed_requests = @ + 1]
    /\ UNCHANGED last_failure_time
    /\ IF state = HALF_OPEN
       THEN /\ state' = OPEN
            /\ success_count' = 0
            /\ UNCHANGED failure_count
       ELSE IF state = CLOSED
            THEN /\ failure_count' = failure_count + 1
                 /\ state' = IF failure_count + 1 >= failure_threshold THEN OPEN ELSE CLOSED
                 /\ UNCHANGED success_count
            ELSE UNCHANGED <<state, failure_count, success_count>>

on_failure ==
    /\ metrics' = [metrics EXCEPT !.failed_requests = @ + 1]
    /\ last_failure_time' = now
    /\ IF state = HALF_OPEN
       THEN /\ state' = OPEN
            /\ success_count' = 0
            /\ UNCHANGED failure_count
       ELSE IF state = CLOSED
            THEN /\ failure_count' = failure_count + 1
                 /\ state' = IF failure_count + 1 >= failure_threshold THEN OPEN ELSE CLOSED
                 /\ UNCHANGED success_count
            ELSE UNCHANGED <<state, failure_count, success_count>>

cbConfig == <<failure_threshold, success_threshold, timeout>>

\* A middleware that passes the request on whatever call returned
MiddlewareCall_PassesRejected(path, t2) ==
    /\ inflight < MaxInflight
    /\ should_exclude_path(path) \/ metrics.total_requests < MaxRequests
    /\ call(path, t2)
    /\ inflight' = inflight + 1
    /\ succRun' = IF state # HALF_OPEN /\ state' = HALF_OPEN THEN 0 ELSE succRun
    /\ admittedRun' = IF state' = HALF_OPEN THEN admittedRun + 1 ELSE 0
    /\ UNCHANGED <<failure_count, last_failure_time, failRun, cbConfig, kafkaVars, rlVars>>

\* circuit_breaker_middleware up to `await call_next(request)`
MiddlewareCall(path, t2) ==
    /\ inflight < MaxInflight
    /\ should_exclude_path(path) \/ metrics.total_requests < MaxRequests
    /\ call(path, t2)
    /\ inflight' = IF response'.kind = "reject" THEN inflight ELSE inflight + 1
    /\ succRun' = IF state # HALF_OPEN /\ state' = HALF_OPEN THEN 0 ELSE succRun
    /\ admittedRun' = IF state' = HALF_OPEN THEN admittedRun + 1 ELSE 0
    /\ UNCHANGED <<failure_count, last_failure_time, failRun, cbConfig, kafkaVars, rlVars>>

\* circuit_breaker_middleware after call_next returned a response below 500
MiddlewareSuccess ==
    /\ inflight > 0
    /\ on_success
    /\ inflight' = inflight - 1
    /\ failRun' = 0
    /\ succRun' = IF state = HALF_OPEN THEN succRun + 1 ELSE succRun
    /\ admittedRun' = IF state' = HALF_OPEN THEN admittedRun ELSE 0
    /\ UNCHANGED <<now, response, cbConfig, kafkaVars, rlVars>>

\* circuit_breaker_middleware after call_next returned a 5xx response or raised
MiddlewareFailure ==
    /\ inflight > 0
    /\ metrics.failed_requests < MaxFailed
    /\ on_failure
    /\ inflight' = inflight - 1
    /\ failRun' = IF state = CLOSED THEN failRun + 1 ELSE 0
    /\ admittedRun' = IF state' = HALF_OPEN THEN admittedRun ELSE 0
    /\ UNCHANGED <<now, response, succRun, cbConfig, kafkaVars, rlVars>>

\* What call_next gives back: a response with a status, or an exception
Outcome(raised, status) == [raised |-> raised, status |-> status]

Outcomes == { Outcome(FALSE, st) : st \in {200, 404, 429, 500, 503} } \cup {Outcome(TRUE, 0)}

\* A middleware that counts every error response as a failure
RecordsFailure_ClientErrors(outcome) == outcome.raised \/ outcome.status >= 400

\* The outcomes the middleware passes to on_failure (lines 159 and 166-168)
RecordsFailure(outcome) == outcome.raised \/ outcome.status >= 500

\* circuit_breaker_middleware from the return of call_next on
MiddlewareReturn(outcome) ==
    IF RecordsFailure(outcome) THEN MiddlewareFailure ELSE MiddlewareSuccess

\* The guarded operation of a request that was passed on finishes.
OperationFinishes == \E outcome \in Outcomes : MiddlewareReturn(outcome)

\* The wall clock advances.
Tick ==
    /\ now < MaxTime
    /\ now' = now + 1
    /\ UNCHANGED <<state, failure_count, success_count, last_failure_time, metrics,
                   inflight, response, failRun, succRun, admittedRun, cbConfig, kafkaVars,
                   rlVars>>

\* The values a later clock read of the same call can return.
SecondRead == { t \in {now, now + 1} : t <= MaxTime }

\* A request arrives at the middleware.
Request == \E path \in Paths : \E t2 \in SecondRead : MiddlewareCall(path, t2)

(***************************************************************************)
(* KafkaService                                                            *)
(***************************************************************************)
KAFKA_CONNECTION_RETRY_DELAY == 3000
KAFKA_COOLDOWN == 30000
retry_delay == KAFKA_CONNECTION_RETRY_DELAY \div 1000
cooldown_after_fail == KAFKA_COOLDOWN \div 1000

\* Inbound messages, by what the read loop can tell apart:
\*   value    message.value is None, b"" or non-empty bytes
\*   utf8     the bytes are valid UTF-8 (a strict decode succeeds)
\*   json     the text decoded with errors="replace" is no JSON, JSON other
\*            than an object, or a JSON object
\*   type     the object's "type"
\*   payload  the object's "payload": absent or null, not an object, an object
\*   beatId, audioUrl   the payload's fields: absent, "" or a non-empty string
Msg(v, u, j, t, p, b, a) ==
    [value |-> v, utf8 |-> u, json |-> j, type |-> t, payload |-> p, beatId |-> b, audioUrl |-> a]

Tombstone == Msg("None", TRUE, "invalid", "absent", "absent", "absent", "absent")
EmptyValue == Msg("empty", TRUE, "invalid", "absent", "absent", "absent", "absent")
BadJson == Msg("bytes", TRUE, "invalid", "absent", "absent", "absent", "absent")
BadBytes == Msg("bytes", FALSE, "invalid", "absent", "absent", "absent", "absent")
JsonArray == Msg("bytes", TRUE, "nonobject", "absent", "absent", "absent", "absent")
JsonStringBadBytes == Msg("bytes", FALSE, "nonobject", "absent", "absent", "absent", "absent")
OtherEvent == Msg("bytes", TRUE, "object", "OTHER", "object", "set", "set")
NoTypeEvent == Msg("bytes", TRUE, "object", "absent", "absent", "absent", "absent")
BeatNoPayload == Msg("bytes", TRUE, "object", "BEAT_CREATED", "absent", "absent", "absent")
BeatPayloadNotObject == Msg("bytes", TRUE, "object", "BEAT_CREATED", "nonobject", "absent", "absent")
BeatNoAudioUrl == Msg("bytes", TRUE, "object", "BEAT_CREATED", "object", "set", "absent")
BeatNoBeatId == Msg("bytes", TRUE, "object", "BEAT_CREATED", "object", "absent", "set")
BeatEmptyBeatId == Msg("bytes", TRUE, "object", "BEAT_CREATED", "object", "empty", "set")
BeatValid == Msg("bytes", TRUE, "object", "BEAT_CREATED", "object", "set", "set")
BeatValidBadBytes == Msg("bytes", FALSE, "object", "BEAT_CREATED", "object", "set", "set")

Messages ==
    { Tombstone, EmptyValue, BadJson, BadBytes, JsonArray, JsonStringBadBytes, OtherEvent,
      NoTypeEvent, BeatNoPayload, BeatPayloadNotObject, BeatNoAudioUrl, BeatNoBeatId,
      BeatEmptyBeatId, BeatValid, BeatValidBadBytes }

NoMsg == Msg("None", TRUE, "invalid", "nomsg", "absent", "absent", "absent")

\* raw_value of line 119: falsy for a None or empty value
RawValueFalsy(m) == m.value \in {"None", "empty"}

\* message.value.decode("utf-8") of lines 142 and 145 raises
StrictDecodeRaises(m) == m.value = "None" \/ (m.value = "bytes" /\ ~m.utf8)

\* `not beat_id or not audio_url` of line 190
PayloadInvalid_And(m) == m.beatId \in {"absent", "empty"} /\ m.audioUrl \in {"absent", "empty"}

PayloadInvalid(m) == m.beatId \in {"absent", "empty"} \/ m.audioUrl \in {"absent", "empty"}

\* A dispatch that treats an unsupported type as an error
Handled_UnknownTypeRaises(m) ==
    IF RawValueFalsy(m) THEN [to |-> "raise", error |-> "ValueError"]
    ELSE IF m.json = "invalid" THEN [to |-> "raise", error |-> "JSONDecodeError"]
    ELSE IF m.json = "nonobject" THEN [to |-> "raise", error |-> "AttributeError"]
    ELSE IF m.type # "BEAT_CREATED" THEN [to |-> "raise", error |-> "ValueError"]
    ELSE IF m.payload # "object" THEN [to |-> "raise", error |-> "AttributeError"]
    ELSE IF PayloadInvalid(m) THEN [to |-> "done", error |-> "none"]
    ELSE [to |-> "post", error |-> "none"]

\* What lines 116-137 do with a message up to their first suspension point:
\* "done" (handled, nothing more to do), "post" (an outbound call is due) or
\* "raise" with the error caught at line 138 or 143.
Handled(m) ==
    IF RawValueFalsy(m) THEN [to |-> "done", error |-> "none"]
    ELSE IF m.json = "invalid" THEN [to |-> "raise", error |-> "JSONDecodeError"]
    ELSE IF m.json = "nonobject" THEN [to |-> "raise", error |-> "AttributeError"]
    ELSE IF m.type # "BEAT_CREATED" THEN [to |-> "done", error |-> "none"]
    ELSE IF m.payload # "object" THEN [to |-> "raise", error |-> "AttributeError"]
    ELSE IF PayloadInvalid(m) THEN [to |-> "done", error |-> "none"]
    ELSE [to |-> "post", error |-> "none"]

NoDlq == [original |-> "none", error |-> "none"]

\* _send_to_dlq up to its send_and_wait
send_to_dlq(original, error_reason) ==
    IF ~is_connected \/ producer = "None"
    THEN /\ rPc' = "wait"
         /\ pendingDlq' = NoDlq
    ELSE /\ rPc' = "dlq"
         /\ pendingDlq' = [original |-> original, error |-> error_reason]

\* Retry loop of the outbound call (lines 216-217)
http_max_retries == 3
http_retry_delay == 2

HttpOutcomes == {"200", "201", "204", "500", "ConnectError"}

\* str(last_exc) after an attempt that ended with outcome r
HttpError(r) == IF r = "ConnectError" THEN r ELSE "Unexpected status code: " \o r

\* KafkaService.__init__ with the settings it runs under
InitKafkaService(enable, mr) ==
    /\ ENABLE_KAFKA = enable
    /\ max_retries = mr
    /\ kPc = "idle"
    /\ attempt = 1
    /\ is_connected = FALSE
    /\ consumer = "None"
    /\ producer = "None"
    /\ sleepFor = 0
    /\ brokerUp \in BOOLEAN
    /\ failsInRun = 0
    /\ rPc = "none"
    /\ offset = 0
    /\ cur = NoMsg
    /\ httpAttempt = 0
    /\ last_exc = "none"
    /\ httpCalls = 0
    /\ pendingDlq = NoDlq
    /\ dlqTopic = <<>>
    /\ sPc = "idle"

\* start_kafka_consumer up to the first connect attempt
KStart ==
    /\ kPc = "idle"
    /\ kPc' = IF ENABLE_KAFKA THEN "connect" ELSE "returned"
    /\ attempt' = 1
    /\ UNCHANGED <<ENABLE_KAFKA, max_retries, is_connected, consumer, producer, sleepFor,
                   brokerUp, failsInRun, kReadVars, sPc, cbVars, rlVars>>

\* A successful attempt that does not leave the loop
KConnect_NoBreak ==
    /\ kPc = "connect"
    /\ brokerUp
    /\ consumer' = "started"
    /\ producer' = "started"
    /\ is_connected' = TRUE
    /\ rPc' = "wait"
    /\ attempt' = 1
    /\ kPc' = "connect"
    /\ UNCHANGED <<ENABLE_KAFKA, max_retries, sleepFor, brokerUp, failsInRun, offset, cur, httpAttempt,
                   last_exc, httpCalls, pendingDlq, dlqTopic, sPc, cbVars, rlVars>>

\* One connect attempt that succeeds (lines 50-92)
KConnect ==
    /\ kPc = "connect"
    /\ brokerUp
    /\ consumer' = "started"
    /\ producer' = "started"
    /\ is_connected' = TRUE
    /\ rPc' = "wait"
    /\ attempt' = 1
    /\ kPc' = "done"
    /\ UNCHANGED <<ENABLE_KAFKA, max_retries, sleepFor, brokerUp, failsInRun, offset, cur, httpAttempt,
                   last_exc, httpCalls, pendingDlq, dlqTopic, sPc, cbVars, rlVars>>

FailurePoints == {"consumer.start", "producer.start", "subscribe"}

\* What a failed attempt decides (lines 98-107): the sleep it enters
AfterFailure_GiveUp ==
    IF attempt >= max_retries
    THEN /\ kPc' = "returned"
         /\ sleepFor' = 0
         /\ attempt' = attempt
    ELSE /\ kPc' = "retry"
         /\ sleepFor' = retry_delay
         /\ attempt' = attempt + 1

AfterFailure_CooldownLate ==
    IF attempt > max_retries
    THEN /\ kPc' = "cooldown"
         /\ sleepFor' = cooldown_after_fail
         /\ attempt' = attempt
    ELSE /\ kPc' = "retry"
         /\ sleepFor' = retry_delay
         /\ attempt' = attempt + 1

AfterFailure ==
    IF attempt >= max_retries
    THEN /\ kPc' = "cooldown"
         /\ sleepFor' = cooldown_after_fail
         /\ attempt' = attempt
    ELSE /\ kPc' = "retry"
         /\ sleepFor' = retry_delay
         /\ attempt' = attempt + 1

\* One connect attempt that fails at `point` (lines 50-82, 94-107)
KConnectFails(point) ==
    /\ kPc = "connect"
    /\ ~brokerUp
    /\ consumer' = IF point = "consumer.start" THEN "created" ELSE "started"
    /\ producer' = IF point = "subscribe" THEN "started" ELSE "created"
    /\ is_connected' = FALSE
    /\ AfterFailure
    /\ failsInRun' = failsInRun + 1
    /\ UNCHANGED <<ENABLE_KAFKA, max_retries, brokerUp, kReadVars, sPc, cbVars, rlVars>>

KAttemptFails == \E point \in FailurePoints : KConnectFails(point)

\* asyncio.sleep(cooldown_after_fail) returns (lines 102-103)
KCooldownOver ==
    /\ kPc = "cooldown"
    /\ attempt' = 1
    /\ kPc' = "connect"
    /\ sleepFor' = 0
    /\ failsInRun' = 0
    /\ UNCHANGED <<ENABLE_KAFKA, max_retries, is_connected, consumer, producer, brokerUp,
                   kReadVars, sPc, cbVars, rlVars>>

\* asyncio.sleep(retry_delay) returns (line 107)
KRetryDelayOver ==
    /\ kPc = "retry"
    /\ kPc' = "connect"
    /\ sleepFor' = 0
    /\ UNCHANGED <<ENABLE_KAFKA, max_retries, attempt, is_connected, consumer, producer,
                   brokerUp, failsInRun, kReadVars, sPc, cbVars, rlVars>>

\* The broker becomes reachable or unreachable.
BrokerFlips ==
    /\ brokerUp' = ~brokerUp
    /\ UNCHANGED <<ENABLE_KAFKA, max_retries, kPc, attempt, is_connected, consumer, producer,
                   sleepFor, failsInRun, kReadVars, sPc, cbVars, rlVars>>

\* The positions of a read task that is not done
Running == {"wait", "post", "dlq"}

\* stop() has called _consumer_task.cancel() and awaits the task: the task's
\* next resumption raises CancelledError.
CancelRequested == sPc = "awaitTask"

\* consumer.stop() / producer.stop() on a client, None when there is none
Stopped(client) == IF client = "None" THEN "None" ELSE "stopped"

\* The except handlers of lines 138-145
DeadLetterRaw(m, error) ==
    IF StrictDecodeRaises(m)
    THEN \* the decode raises inside the handler: caught at line 146
         /\ is_connected' = FALSE
         /\ rPc' = "ended"
         /\ pendingDlq' = NoDlq
    ELSE /\ send_to_dlq("message.value", error)
         /\ UNCHANGED is_connected

\* _consume_messages receives message m and handles it up to the first await
Receive(m) ==
    /\ rPc = "wait"
    /\ ~CancelRequested
    /\ offset < MaxMessages
    /\ offset' = offset + 1
    /\ cur' = m
    /\ httpCalls' = 0
    /\ last_exc' = "none"
    /\ CASE Handled(m).to = "done" ->
              /\ rPc' = "wait"
              /\ httpAttempt' = 0
              /\ UNCHANGED <<is_connected, pendingDlq>>
         [] Handled(m).to = "post" ->
              /\ rPc' = "post"
              /\ httpAttempt' = 1
              /\ UNCHANGED <<is_connected, pendingDlq>>
         [] Handled(m).to = "raise" ->
              /\ httpAttempt' = 0
              /\ DeadLetterRaw(m, Handled(m).error)
    /\ UNCHANGED <<ENABLE_KAFKA, max_retries, kPc, attempt, consumer, producer, sleepFor,
                   brokerUp, failsInRun, dlqTopic, sPc, cbVars, rlVars>>

ReceiveMessage == \E m \in Messages : Receive(m)

\* The retry loop with a last_exc that keeps the error of the first failed attempt
Post_KeepsFirstError(r) ==
    /\ rPc = "post"
    /\ ~CancelRequested
    /\ httpCalls' = httpCalls + 1
    /\ IF r \in {"200", "201"}
       THEN /\ rPc' = "wait"
            /\ UNCHANGED <<httpAttempt, last_exc, pendingDlq>>
       ELSE /\ last_exc' = IF last_exc = "none" THEN HttpError(r) ELSE last_exc
            /\ IF httpAttempt < http_max_retries
               THEN /\ httpAttempt' = httpAttempt + 1
                    /\ UNCHANGED <<rPc, pendingDlq>>
               ELSE /\ send_to_dlq("json.dumps(payload)", last_exc')
                    /\ UNCHANGED httpAttempt
    /\ UNCHANGED <<kConnVars, offset, cur, dlqTopic, sPc, cbVars, rlVars>>

\* client.post returns or raises with outcome r (lines 221-244)
Post(r) ==
    /\ rPc = "post"
    /\ ~CancelRequested
    /\ httpCalls' = httpCalls + 1
    /\ IF r \in {"200", "201"}
       THEN /\ rPc' = "wait"
            /\ UNCHANGED <<httpAttempt, last_exc, pendingDlq>>
       ELSE /\ last_exc' = HttpError(r)
            /\ IF httpAttempt < http_max_retries
               THEN /\ httpAttempt' = httpAttempt + 1
                    /\ UNCHANGED <<rPc, pendingDlq>>
               ELSE /\ send_to_dlq("json.dumps(payload)", HttpError(r))
                    /\ UNCHANGED httpAttempt
    /\ UNCHANGED <<kConnVars, offset, cur, dlqTopic, sPc, cbVars, rlVars>>

OutboundCall == \E r \in HttpOutcomes : Post(r)

\* A _send_to_dlq that lets the error of a failed publish out, to the outer
\* handler of the read loop
DlqSent_Propagates(ok) ==
    /\ rPc = "dlq"
    /\ ~CancelRequested
    /\ ok => producer = "started"
    /\ dlqTopic' = IF ok
                     THEN Append(dlqTopic, [offset |-> offset,
                                            originalEvent |-> pendingDlq.original,
                                            error |-> pendingDlq.error])
                     ELSE dlqTopic
    /\ pendingDlq' = NoDlq
    /\ rPc' = IF ok THEN "wait" ELSE "ended"
    /\ is_connected' = (ok /\ is_connected)
    /\ UNCHANGED <<ENABLE_KAFKA, max_retries, kPc, attempt, consumer, producer, sleepFor,
                   brokerUp, failsInRun, offset, cur, httpAttempt, last_exc, httpCalls,
                   sPc, cbVars, rlVars>>

\* A dead-letter send that is repeated after it succeeded
DlqSent_SendsAgain(ok) ==
    /\ rPc = "dlq"
    /\ ok => producer = "started"
    /\ ~CancelRequested
    /\ dlqTopic' = IF ok
                     THEN Append(dlqTopic, [offset |-> offset,
                                            originalEvent |-> pendingDlq.original,
                                            error |-> pendingDlq.error])
                     ELSE dlqTopic
    /\ pendingDlq' = IF ok THEN pendingDlq ELSE NoDlq
    /\ rPc' = IF ok THEN "dlq" ELSE "wait"
    /\ UNCHANGED <<kConnVars, offset, cur, httpAttempt, last_exc, httpCalls, sPc, cbVars, rlVars>>

\* producer.send_and_wait returns (ok) or raises (lines 264-277)
DlqSent(ok) ==
    /\ rPc = "dlq"
    /\ ok => producer = "started"
    /\ ~CancelRequested
    /\ dlqTopic' = IF ok
                     THEN Append(dlqTopic, [offset |-> offset,
                                            originalEvent |-> pendingDlq.original,
                                            error |-> pendingDlq.error])
                     ELSE dlqTopic
    /\ pendingDlq' = NoDlq
    /\ rPc' = "wait"
    /\ UNCHANGED <<kConnVars, offset, cur, httpAttempt, last_exc, httpCalls, sPc, cbVars, rlVars>>

DeadLetterSend == \E ok \in BOOLEAN : DlqSent(ok)

\* A read loop whose exit sends the service back to connecting
TransportError_Reconnects ==
    /\ rPc = "wait"
    /\ ~CancelRequested
    /\ is_connected' = FALSE
    /\ rPc' = "ended"
    /\ kPc' = "connect"
    /\ UNCHANGED <<ENABLE_KAFKA, max_retries, attempt, consumer, producer, sleepFor,
                   brokerUp, failsInRun, offset, cur, httpAttempt, last_exc, httpCalls,
                   pendingDlq, dlqTopic, sPc, cbVars, rlVars>>

\* The consumer iterator raises (lines 146-148)
TransportError ==
    /\ rPc = "wait"
    /\ ~CancelRequested
    /\ is_connected' = FALSE
    /\ rPc' = "ended"
    /\ UNCHANGED <<ENABLE_KAFKA, max_retries, kPc, attempt, consumer, producer, sleepFor,
                   brokerUp, failsInRun, offset, cur, httpAttempt, last_exc, httpCalls,
                   pendingDlq, dlqTopic, sPc, cbVars, rlVars>>

\* A stop() that closes the consumer without cancelling the read task first
StopBegin_ClosesFirst ==
    /\ sPc = "idle"
    /\ consumer' = Stopped(consumer)
    /\ sPc' = "stopProducer"
    /\ UNCHANGED <<ENABLE_KAFKA, max_retries, kPc, attempt, is_connected, producer, sleepFor,
                   brokerUp, failsInRun, kReadVars, cbVars, rlVars>>

\* stop() up to its first await (lines 336-349): it cancels a read task that
\* is not done and awaits it; without one it goes on to consumer.stop(), and
\* with no client at all it runs to its end (line 362) without an await
StopBegin ==
    /\ sPc = "idle"
    /\ IF rPc \in Running
       THEN /\ sPc' = "awaitTask"
            /\ UNCHANGED <<consumer, is_connected>>
       ELSE IF consumer = "None" /\ producer = "None"
            THEN /\ sPc' = "done"
                 /\ is_connected' = FALSE
                 /\ UNCHANGED consumer
            ELSE /\ sPc' = "stopProducer"
                 /\ consumer' = Stopped(consumer)
                 /\ UNCHANGED is_connected
    /\ UNCHANGED <<ENABLE_KAFKA, max_retries, kPc, attempt, producer, sleepFor,
                   brokerUp, failsInRun, kReadVars, cbVars, rlVars>>

\* The read task is resumed with CancelledError, which none of its handlers
\* catches, and ends; `await self._consumer_task` returns (lines 341-344)
TaskCancelled ==
    /\ sPc = "awaitTask"
    /\ rPc \in Running
    /\ rPc' = "cancelled"
    /\ pendingDlq' = NoDlq
    /\ sPc' = "stopConsumer"
    /\ UNCHANGED <<kConnVars, offset, cur, httpAttempt, last_exc, httpCalls, dlqTopic,
                   cbVars, rlVars>>

\* stop() calls consumer.stop() (lines 347-352)
StopConsumer ==
    /\ sPc = "stopConsumer"
    /\ consumer' = Stopped(consumer)
    /\ sPc' = "stopProducer"
    /\ UNCHANGED <<ENABLE_KAFKA, max_retries, kPc, attempt, is_connected, producer, sleepFor,
                   brokerUp, failsInRun, kReadVars, cbVars, rlVars>>

\* consumer.stop() returned; stop() calls producer.stop() (lines 355-360)
StopProducer ==
    /\ sPc = "stopProducer"
    /\ producer' = Stopped(producer)
    /\ sPc' = "finish"
    /\ UNCHANGED <<ENABLE_KAFKA, max_retries, kPc, attempt, is_connected, consumer, sleepFor,
                   brokerUp, failsInRun, kReadVars, cbVars, rlVars>>

\* producer.stop() returned (line 362)
StopFinish ==
    /\ sPc = "finish"
    /\ is_connected' = FALSE
    /\ sPc' = "done"
    /\ UNCHANGED <<ENABLE_KAFKA, max_retries, kPc, attempt, consumer, producer, sleepFor,
                   brokerUp, failsInRun, kReadVars, cbVars, rlVars>>

(***************************************************************************)
(* Rate limiting                                                           *)
(***************************************************************************)
\* request.state.user as verify_jwt_token sets it (authentication.py:104-109);
\* NoUser is a request without it.
User(id, plan) == [userId |-> id, pricingPlan |-> plan]
NoUser == User("", "")

Req(user, ip) == [user |-> user, ip |-> ip]

\* hasattr(request.state, "user") and request.state.user
HasUser(request) == request.user # NoUser

\* get_user_identifier that keys every caller by its address
get_user_identifier_ByAddress(request) == "ip:" \o request.ip

get_user_identifier(request) ==
    IF HasUser(request) /\ request.user.userId # ""
    THEN "user:" \o request.user.userId
    ELSE "ip:" \o request.ip

\* A limit "count/granularity" or "count/multiples granularity"
Limit(count, multiples, granularity) ==
    [count |-> count, multiples |-> multiples, granularity |-> granularity]

\* `limits` of lines 108-112
PlanLimit(plan) ==
    CASE plan = "free" -> Limit(20, 1, "minute")
      [] plan = "pro" -> Limit(50, 1, "minute")
      [] plan = "studio" -> Limit(200, 1, "minute")

get_rate_limit_for_user(request) ==
    IF ~HasUser(request)
    THEN Limit(10, 1, "minute")
    ELSE IF request.user.pricingPlan \in {"free", "pro", "studio"}
         THEN PlanLimit(request.user.pricingPlan)
         ELSE PlanLimit("free")

STRICT_RATE_LIMIT == Limit(5, 15, "minute")

Endpoints == {"basic", "dynamic", "strict"}

\* The limit the decorator of each example endpoint declares.
EndpointLimit(endpoint, request) ==
    CASE endpoint = "basic" -> Limit(10, 1, "minute")
      [] endpoint = "dynamic" -> get_rate_limit_for_user(request)
      [] endpoint = "strict" -> STRICT_RATE_LIMIT

\* Strings as sequences of words: `a in b` and b.split(a)[1]
ContainsWords(b, a) ==
    \E i \in 0..(Len(b) - Len(a)) : SubSeq(b, i + 1, i + Len(a)) = a

FirstAt(b, a) ==
    CHOOSE i \in 0..(Len(b) - Len(a)) :
        /\ SubSeq(b, i + 1, i + Len(a)) = a
        /\ \A j \in 0..(i - 1) : SubSeq(b, j + 1, j + Len(a)) # a

\* Up to the next occurrence of a, as split does
SplitSecond(b, a) ==
    LET rest == SubSeq(b, FirstAt(b, a) + Len(a) + 1, Len(b))
    IN  IF ContainsWords(rest, a) THEN SubSeq(rest, 1, FirstAt(rest, a)) ELSE rest

\* RateLimitExceeded.detail: the text of the limit that was exceeded
ExceededDetail(limit) ==
    <<ToString(limit.count), "per", ToString(limit.multiples), limit.granularity>>

NoneValue == <<"None">>

\* The plan rate_limit_handler reports (lines 155-161)
HandlerPlan(request) == IF HasUser(request) THEN request.user.pricingPlan ELSE "free"

rate_limit_handler(request, detail) ==
    [status |-> 429,
     currentPlan |-> HandlerPlan(request),
     retryAfter |-> IF ContainsWords(detail, <<"Retry", "after">>)
                    THEN SplitSecond(detail, <<"Retry", "after">>)
                    ELSE NoneValue]

Ok200 == [status |-> 200, currentPlan |-> "", retryAfter |-> NoneValue]

\* The answer to a request whose limit check raised
Error500 == [status |-> 500, currentPlan |-> "", retryAfter |-> NoneValue]

RedisUrls == {"", "redis://localhost:6379"}

\* storage_uri of create_rate_limiter (line 130)
StorageUri(url, up) == IF url # "" THEN url ELSE "memory://"

\* The limiter's storage can be read and written.
StorageReachable == storage_uri = "memory://" \/ redisUp

rlConfig == <<rlEndpoint, REDIS_URL, storage_uri>>

\* init_redis, awaited by the lifespan startup (main.py:30)
InitRedis ==
    /\ ~rlStarted
    /\ rlStarted' = TRUE
    /\ redis_client' = IF REDIS_URL # "" /\ redisUp THEN "client" ELSE "None"
    /\ UNCHANGED <<rlConfig, rlCount, rlResponse, redisUp, rlCountLong, qVars, cbVars, kafkaVars>>

\* The Redis server goes down or comes back.
RedisFlips ==
    /\ REDIS_URL # ""
    /\ redisUp' = ~redisUp
    /\ UNCHANGED <<rlConfig, rlCount, rlResponse, redis_client, rlStarted, rlCountLong, qVars, cbVars, kafkaVars>>

\* The callers of a rate-limited endpoint: two users behind one address, as
\* verify_jwt_token describes them, and a request from that address without
\* request.state.user
Callers ==
    { Req(User("u1", "free"), "10.0.0.1"), Req(User("u2", "pro"), "10.0.0.1"),
      Req(NoUser, "10.0.0.1") }

Keys == { get_user_identifier(r) : r \in Callers }

\* The limiter's fixed-window check for one request, then the endpoint or the
\* exception handler; a check against a storage that does not answer raises
LimitedRequest(request) ==
    LET key == get_user_identifier(request)
        limit == EndpointLimit(rlEndpoint, request)
    IN  /\ rlStarted
        /\ rlCount[key] < limit.count + MaxOverQuota
        /\ IF StorageReachable
           THEN /\ rlCount' = [rlCount EXCEPT ![key] = @ + 1]
                /\ rlResponse' = IF rlCount[key] + 1 > limit.count
                                   THEN rate_limit_handler(request, ExceededDetail(limit))
                                   ELSE Ok200
           ELSE /\ rlResponse' = Error500
                /\ UNCHANGED rlCount
        /\ UNCHANGED <<rlConfig, redis_client, redisUp, rlStarted, rlCountLong, qVars, cbVars, kafkaVars>>

RateLimitedRequest == \E request \in Callers : LimitedRequest(request)

\* The current fixed window ends.
WindowExpires ==
    /\ \E key \in Keys : rlCount[key] > 0
    /\ rlCount' = [key \in Keys |-> 0]
    /\ UNCHANGED <<rlConfig, rlResponse, redis_client, redisUp, rlStarted, rlCountLong, qVars, cbVars, kafkaVars>>

\* The limits multiple_rate_limits_example declares (example_rate_limit.py:81-82)
MultipleLimits == <<Limit(20, 1, "minute"), Limit(100, 1, "hour")>>

\* The caller of the endpoint that declares two limits
MultipleCaller == Req(User("u1", "free"), "10.0.0.1")

\* A limiter that counts against both limits and enforces the first only
HitLimits_FirstOnly(short, long) ==
    IF short + 1 > MultipleLimits[1].count
    THEN [short |-> short + 1, long |-> long, failed |-> 1]
    ELSE [short |-> short + 1, long |-> long + 1, failed |-> 0]

\* The limiter counts the request against each declared limit in turn and
\* stops at the first one that is exceeded; `failed` is its position, 0 if none
HitLimits(short, long) ==
    IF short + 1 > MultipleLimits[1].count
    THEN [short |-> short + 1, long |-> long, failed |-> 1]
    ELSE IF long + 1 > MultipleLimits[2].count
         THEN [short |-> short + 1, long |-> long + 1, failed |-> 2]
         ELSE [short |-> short + 1, long |-> long + 1, failed |-> 0]

\* One request to the endpoint with two limits, then the endpoint or the
\* exception handler
MultipleLimitedRequest ==
    LET key == get_user_identifier(MultipleCaller)
        hit == HitLimits(rlCount[key], rlCountLong[key])
    IN  /\ rlStarted
        /\ rlEndpoint = "multiple"
        /\ rlCount[key] < MultipleLimits[1].count + MaxOverQuota
        /\ rlCountLong[key] < MultipleLimits[2].count + MaxOverQuota
        /\ rlCount' = [rlCount EXCEPT ![key] = hit.short]
        /\ rlCountLong' = [rlCountLong EXCEPT ![key] = hit.long]
        /\ rlResponse' = IF hit.failed = 0
                         THEN Ok200
                         ELSE rate_limit_handler(MultipleCaller,
                                                 ExceededDetail(MultipleLimits[hit.failed]))
        /\ UNCHANGED <<rlConfig, redis_client, redisUp, rlStarted, qVars, cbVars, kafkaVars>>

\* The window of the second limit ends.
LongWindowExpires ==
    /\ \E key \in Keys : rlCountLong[key] > 0
    /\ rlCountLong' = [key \in Keys |-> 0]
    /\ UNCHANGED <<rlConfig, rlCount, rlResponse, redis_client, redisUp, rlStarted, qVars,
                   cbVars, kafkaVars>>

\* The module as imported: create_rate_limiter has run, init_redis has not.
InitRateLimiter(endpoint, url, up) ==
    /\ rlEndpoint = endpoint
    /\ rlCount = [key \in Keys |-> 0]
    /\ rlCountLong = [key \in Keys |-> 0]
    /\ rlResponse = Ok200
    /\ REDIS_URL = url
    /\ storage_uri = StorageUri(url, up)
    /\ redis_client = "None"
    /\ redisUp = up
    /\ rlStarted = FALSE
    /\ qRequest = Req(NoUser, "")
    /\ qKey = ""
    /\ qLimit = Limit(0, 1, "minute")

\* The values of the x-user-pricing-plan header verify_jwt_token copies into
\* request.state.user; "None" is the absent header
PricingPlans == {"free", "pro", "basic", "studio", "enterprise", "gold", "", "None"}

UserIds == { "u" \o ToString(i) : i \in 1..MaxUsers }

Addresses == { "10.0.0." \o ToString(i) : i \in 1..MaxAddresses }

\* The requests get_user_identifier and get_rate_limit_for_user are applied to
QuotaInputs ==
    { Req(User(id, plan), ip) : id \in UserIds, plan \in PricingPlans, ip \in Addresses }
        \cup { Req(NoUser, ip) : ip \in Addresses }

\* key_func and the dynamic limit of one request (example_rate_limit.py:30)
QuotaFor(request) ==
    /\ qRequest' = request
    /\ qKey' = get_user_identifier(request)
    /\ qLimit' = get_rate_limit_for_user(request)
    /\ UNCHANGED <<rlConfig, rlCount, rlResponse, redis_client, redisUp, rlStarted,
                   rlCountLong, cbVars, kafkaVars>>

QuotaRequest == \E request \in QuotaInputs : QuotaFor(request)

\* CircuitBreaker.__init__
InitBreaker(ft, st, to) ==
    /\ failure_threshold = ft
    /\ success_threshold = st
    /\ timeout = to
    /\ state = CLOSED
    /\ failure_count = 0
    /\ success_count = 0
    /\ last_failure_time = None
    /\ metrics = [total_requests |-> 0, failed_requests |-> 0, rejected_requests |-> 0]
    /\ now = 0
    /\ inflight = 0
    /\ response = NoResponse
    /\ failRun = 0
    /\ succRun = 0
    /\ admittedRun = 0

InitCB ==
    /\ \E ft \in {1, MaxFailureThreshold - 1, MaxFailureThreshold} : \E st \in {1, MaxSuccessThreshold} :
         \E to \in {1, MaxTimeout} : InitBreaker(ft, st, to)
    /\ InitKafkaService(TRUE, 1) /\ brokerUp
    /\ InitRateLimiter("basic", "", FALSE)

NextCB ==
    \/ Request
    \/ OperationFinishes
    \/ Tick

SpecCB == InitCB /\ [][NextCB]_vars


InitKafka ==
    /\ InitBreaker(MaxFailureThreshold, MaxSuccessThreshold, MaxTimeout)
    /\ \E enable \in BOOLEAN : \E mr \in 1..MaxRetries : InitKafkaService(enable, mr)
    /\ InitRateLimiter("basic", "", FALSE)

NextKafka ==
    \/ KStart
    \/ KConnect
    \/ KAttemptFails
    \/ KCooldownOver
    \/ KRetryDelayOver
    \/ BrokerFlips
    \/ ReceiveMessage
    \/ OutboundCall
    \/ DeadLetterSend
    \/ TransportError
    \/ StopBegin
    \/ TaskCancelled
    \/ StopConsumer
    \/ StopProducer
    \/ StopFinish

SpecKafka == InitKafka /\ [][NextKafka]_vars

\* The event loop keeps scheduling the connect task: a due attempt is made and
\* a sleep returns.
FairSpecKafka ==
    /\ SpecKafka
    /\ WF_vars(KStart)
    /\ WF_vars(KConnect)
    /\ WF_vars(KAttemptFails)
    /\ WF_vars(KCooldownOver)
    /\ WF_vars(KRetryDelayOver)
InitRL ==
    /\ InitBreaker(MaxFailureThreshold, MaxSuccessThreshold, MaxTimeout)
    /\ InitKafkaService(TRUE, 1) /\ brokerUp
    /\ \E endpoint \in Endpoints : \E url \in RedisUrls : \E up \in BOOLEAN :
         InitRateLimiter(endpoint, url, up)

NextRL ==
    \/ InitRedis
    \/ RateLimitedRequest
    \/ WindowExpires
    \/ RedisFlips

SpecRL == InitRL /\ [][NextRL]_vars

InitMultiple ==
    /\ InitBreaker(MaxFailureThreshold, MaxSuccessThreshold, MaxTimeout)
    /\ InitKafkaService(TRUE, 1) /\ brokerUp
    /\ InitRateLimiter("multiple", "", FALSE)

NextMultiple ==
    \/ InitRedis
    \/ MultipleLimitedRequest
    \/ WindowExpires
    \/ LongWindowExpires

SpecMultiple == InitMultiple /\ [][NextMultiple]_vars

InitQuota ==
    /\ InitBreaker(MaxFailureThreshold, MaxSuccessThreshold, MaxTimeout)
    /\ InitKafkaService(TRUE, 1) /\ brokerUp
    /\ InitRateLimiter("dynamic", "", FALSE)

NextQuota == QuotaRequest

SpecQuota == InitQuota /\ [][NextQuota]_vars

(***************************************************************************)
(* Claims about the circuit breaker                                        *)
(***************************************************************************)
NonExcluded(path) == ~should_exclude_path(path)

\* C1: starting from Closed, the failure_threshold-th consecutive recorded
\* failure leaves the breaker Open, and every call for a non-excluded path made
\* while Open and no later than timeout after the last recorded failure is
\* rejected (the breaker stays Open and the request is not passed on).
C1_OpenAfterThresholdAndReject ==
    [][ /\ (MiddlewareFailure /\ state = CLOSED /\ failRun + 1 >= failure_threshold)
            => state' = OPEN
        /\ \A path \in Paths : \A t2 \in SecondRead :
              (/\ NonExcluded(path)
               /\ state = OPEN
               /\ last_failure_time # None
               /\ now - last_failure_time <= timeout
               /\ MiddlewareCall(path, t2))
              => (response'.kind = "reject" /\ state' = OPEN /\ inflight' = inflight)
      ]_vars

C1_Witness ==
    /\ failure_threshold = MaxFailureThreshold
    /\ failRun = failure_threshold
    /\ state = OPEN
    /\ response.kind = "reject"
    /\ last_failure_time > 0

\* C2: whenever the breaker is Open and more than timeout has elapsed since
\* the last recorded failure, whatever that timestamp is, the next call for a
\* non-excluded path is allowed and leaves HalfOpen with success_count = 0.
C2_AllowAfterTimeout ==
    [][ \A path \in Paths : \A t2 \in SecondRead :
          (/\ NonExcluded(path)
           /\ state = OPEN
           /\ last_failure_time # None
           /\ now - last_failure_time > timeout
           /\ MiddlewareCall(path, t2))
          => (response'.kind = "allow" /\ state' = HALF_OPEN /\ success_count' = 0)
      ]_vars

\* C3: in HalfOpen, the success_threshold-th consecutive recorded success
\* closes the breaker with failure_count = 0 and success_count = 0; an earlier
\* success leaves it HalfOpen.
C3_HalfOpenSuccesses ==
    [][ (MiddlewareSuccess /\ state = HALF_OPEN)
        => IF succRun + 1 >= success_threshold
           THEN state' = CLOSED /\ failure_count' = 0 /\ success_count' = 0
           ELSE state' = HALF_OPEN
      ]_vars

C3_Witness ==
    /\ success_threshold = MaxSuccessThreshold
    /\ succRun = success_threshold
    /\ state = CLOSED
    /\ failure_count = 0
    /\ success_count = 0
    /\ metrics.failed_requests > 0

\* C4: in HalfOpen a single recorded failure reopens the breaker at once, with
\* success_count = 0 and last_failure_time = now, whatever success_count was.
C4_HalfOpenFailure ==
    [][ (MiddlewareFailure /\ state = HALF_OPEN)
        => (state' = OPEN /\ success_count' = 0 /\ last_failure_time' = now)
      ]_vars

C4_Witness ==
    /\ state = OPEN
    /\ succRun > 0
    /\ succRun < success_threshold
    /\ success_count = 0
    /\ last_failure_time = now

\* C13: a request that call rejects is not passed to call_next, so no outcome
\* is ever recorded for it, and the rejection itself leaves failure_count,
\* success_count, failed_requests and last_failure_time as they were.
C13_RejectedNotInvokedNotRecorded ==
    [][ \A path \in Paths : \A t2 \in SecondRead :
          (response'.kind = "reject" /\ MiddlewareCall(path, t2))
          => /\ inflight' = inflight
             /\ failure_count' = failure_count
             /\ success_count' = success_count
             /\ metrics'.failed_requests = metrics.failed_requests
             /\ last_failure_time' = last_failure_time
             /\ state' = state
      ]_vars

C13_Witness ==
    /\ response.kind = "reject"
    /\ metrics.rejected_requests = 2
    /\ inflight = 0
    /\ state = OPEN
    /\ failure_count = failure_threshold
    /\ metrics.failed_requests = failure_threshold

\* The path begins with one of the excluded strings.
BeginsWithExcluded(path) == \E excluded \in excluded_paths : StartsWith(path, excluded)

\* The path holds one of the excluded strings at any position.
HoldsExcluded(path) == \E excluded \in excluded_paths : Contains(path, excluded)

\* A step that can be one of the middleware's call: the request is passed on
\* or rejected.
PassedOnOrRejected ==
    \/ inflight' = inflight + 1
    \/ metrics'.rejected_requests = metrics.rejected_requests + 1

\* What call does for an excluded path: Allow, without counting
AllowedUncounted ==
    /\ response' = Allow
    /\ inflight' = inflight + 1
    /\ metrics' = metrics
    /\ state' = state

\* C14 as stated: a path is excluded exactly when it begins with an excluded
\* prefix, so every call for a path that does not begin with one is counted in
\* total_requests, and a call for a path that does is allowed in every state
\* without changing total_requests, rejected_requests or the state.
C14_ExcludedIffPrefix ==
    [][ \A path \in Paths : \A t2 \in SecondRead :
          (PassedOnOrRejected /\ MiddlewareCall(path, t2))
          => IF BeginsWithExcluded(path)
             THEN AllowedUncounted
             ELSE metrics'.total_requests = metrics.total_requests + 1
      ]_vars

\* C14 amended: a path is excluded exactly when it holds one of the excluded
\* strings anywhere ("/api/health" is excluded by "/health"); a call for an
\* excluded path is allowed in every state, Open before the timeout included,
\* without changing total_requests, rejected_requests or the state, and every
\* other call is counted in total_requests.
C14_ExcludedIffSubstring ==
    [][ \A path \in Paths : \A t2 \in SecondRead :
          (PassedOnOrRejected /\ MiddlewareCall(path, t2))
          => IF HoldsExcluded(path)
             THEN AllowedUncounted
             ELSE metrics'.total_requests = metrics.total_requests + 1
      ]_vars

\* An excluded request was allowed while the breaker was Open for the first
\* time, before the timeout and after a rejection.
C14_Witness ==
    /\ state = OPEN
    /\ metrics.failed_requests = failure_threshold
    /\ metrics.rejected_requests > 0
    /\ response = Allow
    /\ last_failure_time > 0
    /\ now - last_failure_time <= timeout

\* C15: in every reachable state, whatever the interleaving of calls and
\* recorded outcomes, a Closed breaker has failure_count < failure_threshold.
C15_ClosedBelowThreshold ==
    state = CLOSED => failure_count < failure_threshold

\* Closed again after having been Open, one failure short of the threshold.
C15_Witness ==
    /\ state = CLOSED
    /\ failure_threshold = MaxFailureThreshold - 1
    /\ failure_count = failure_threshold - 1
    /\ metrics.failed_requests > failure_threshold
    /\ inflight > 0

\* C16: in every reachable state an Open breaker has last_failure_time set
\* (not None), so the test of the timeout always has a timestamp to read.
C16_OpenHasFailureTime ==
    state = OPEN => last_failure_time # None

C16_Witness ==
    /\ state = OPEN
    /\ last_failure_time > 0
    /\ metrics.failed_requests > failure_threshold
    /\ succRun > 0

(***************************************************************************)
(* Claims about the Kafka consumer                                         *)
(***************************************************************************)
\* The message's bytes are not structured data.
Malformed(m) == m.value = "bytes" /\ m.json = "invalid"

\* A BEAT_CREATED event whose payload object lacks beatId or audioUrl.
LacksRequiredField(m) ==
    /\ m.value = "bytes"
    /\ m.json = "object"
    /\ m.type = "BEAT_CREATED"
    /\ m.payload = "object"
    /\ (m.beatId = "absent" \/ m.audioUrl = "absent")

\* A BEAT_CREATED event with no payload at all.
LacksPayload(m) ==
    /\ m.value = "bytes"
    /\ m.json = "object"
    /\ m.type = "BEAT_CREATED"
    /\ m.payload = "absent"

RecordsFor(topic, off) == { i \in DOMAIN topic : topic[i].offset = off }

MissingFieldReasons == {"missing beatId", "missing audioUrl"}

\* C5: every message whose bytes cannot be decoded as structured data is
\* forwarded to the dead-letter sink with the consumer still connected, and once
\* its publish returns there is exactly one dead-letter record for it and the
\* read loop waits for the next message.
C5_MalformedDeadLettered ==
    [][ /\ \A m \in Messages :
              (Receive(m) /\ Malformed(m))
              => (is_connected' /\ rPc' = "dlq" /\ pendingDlq'.error = "JSONDecodeError")
        /\ (DlqSent(TRUE) /\ Malformed(cur))
              => (/\ is_connected'
                  /\ rPc' = "wait"
                  /\ Cardinality(RecordsFor(dlqTopic', offset)) = 1)
      ]_vars

\* C6: a BEAT_CREATED event whose payload lacks beatId or audioUrl is forwarded
\* to the dead-letter sink with a reason that names the missing field.
C6_MissingFieldDeadLettered ==
    [][ \A m \in Messages :
          (Receive(m) /\ LacksRequiredField(m))
          => (rPc' = "dlq" /\ pendingDlq'.error \in MissingFieldReasons)
      ]_vars

\* C7: no outbound HTTP call is made, or left due, for a BEAT_CREATED event
\* that lacks beatId, audioUrl or its whole payload, nor for a message that
\* failed to decode.
C7_NoOutboundCallForInvalid ==
    (Malformed(cur) \/ LacksRequiredField(cur) \/ LacksPayload(cur))
    => (httpCalls = 0 /\ rPc # "post")

C7_Witness ==
    /\ cur = BeatNoAudioUrl
    /\ offset = 2
    /\ rPc = "wait"
    /\ httpCalls = 0
    /\ Len(dlqTopic) = 1
    /\ dlqTopic[1].originalEvent = "json.dumps(payload)"

\* C8: a failed connect attempt sleeps cooldown_after_fail and then sets
\* attempt = 1 when attempt >= max_retries, and otherwise sleeps retry_delay
\* with attempt incremented; so the loop cools down exactly after max_retries
\* failed attempts in a row and never earlier.
C8_RetryThenCooldown ==
    [][ /\ \A point \in FailurePoints :
              KConnectFails(point)
              => IF attempt >= max_retries
                 THEN kPc' = "cooldown" /\ sleepFor' = cooldown_after_fail
                 ELSE kPc' = "retry" /\ sleepFor' = retry_delay /\ attempt' = attempt + 1
        /\ KCooldownOver => (attempt' = 1 /\ kPc' = "connect")
        /\ (kPc' = "cooldown") => (failsInRun' = max_retries)
        /\ (kPc' \in {"retry", "connect"}) => (failsInRun' < max_retries)
      ]_vars

C8_Witness ==
    /\ max_retries = MaxRetries
    /\ kPc = "cooldown"
    /\ attempt = max_retries
    /\ failsInRun = max_retries
    /\ sleepFor = cooldown_after_fail

\* C9: when Kafka is enabled the connect loop never gives up: it makes
\* attempts again and again until the consumer is connected, and if the broker
\* stays reachable from some point on the consumer eventually is connected.
C9_NeverGivesUp ==
    ENABLE_KAFKA =>
        /\ ([]<>(kPc = "connect")) \/ <>is_connected
        /\ (<>[]brokerUp) => <>is_connected

C9_Witness ==
    /\ is_connected
    /\ kPc = "done"
    /\ attempt = 1
    /\ failsInRun > 0
    /\ rPc = "wait"

\* A 2xx status
Is2xx(r) == r \in {"200", "201", "204"}

\* C17: for one BEAT_CREATED message with a valid payload at most 3 outbound
\* calls are made; a call answered with any 2xx status ends the attempts with
\* nothing handed to the dead-letter sink; a call answered otherwise, or one
\* that raised, is followed by another attempt while fewer than 3 were made.
C17_OutboundRetry ==
    [][ \A r \in HttpOutcomes :
          Post(r)
          => /\ httpCalls' <= 3
             /\ Is2xx(r) => (rPc' = "wait" /\ pendingDlq' = NoDlq /\ httpAttempt' = httpAttempt)
             /\ (~Is2xx(r) /\ httpCalls' < 3) => (rPc' = "post" /\ httpAttempt' = httpAttempt + 1)
      ]_vars

\* C18: when the third outbound attempt for a message fails too, the message
\* is handed to the dead-letter sink once, with the error of that third
\* attempt (unless stop() has made the sink unavailable); the publish, when it succeeds, leaves exactly one dead-letter
\* record for the message with that reason, and there is never more than one.
C18_ExhaustedRetriesDeadLettered ==
    [][ /\ \A r \in HttpOutcomes :
              (Post(r) /\ httpCalls = 2 /\ r \notin {"200", "201"})
              => (/\ httpCalls' = 3
                  /\ last_exc' = HttpError(r)
                  /\ IF is_connected /\ producer # "None"
                     THEN rPc' = "dlq" /\ pendingDlq'.error = HttpError(r)
                     ELSE rPc' = "wait" /\ pendingDlq' = NoDlq)
        /\ (DlqSent(TRUE) /\ httpCalls = 3)
              => (/\ Cardinality(RecordsFor(dlqTopic', offset)) = 1
                  /\ dlqTopic'[Len(dlqTopic')].error = last_exc
                  /\ rPc' = "wait")
        /\ \A off \in 1..MaxMessages : Cardinality(RecordsFor(dlqTopic', off)) <= 1
      ]_vars

\* Three failed attempts, the last with another error than the ones before,
\* and the record published.
C18_Witness ==
    /\ cur = BeatValid
    /\ httpCalls = 3
    /\ last_exc = "ConnectError"
    /\ rPc = "wait"
    /\ Len(dlqTopic) = 1
    /\ dlqTopic[1].error = "ConnectError"
    /\ dlqTopic[1].offset = offset

\* C19: every dead-letter record, whatever produced it, carries the inbound
\* message as it was received (the content of message.value).
C19_DeadLetterCarriesRawMessage ==
    \A i \in DOMAIN dlqTopic : dlqTopic[i].originalEvent = "message.value"

\* C20: an error of the consumer iterator ends the read loop with
\* is_connected = False, and from then on the service stays as it is: the
\* connect loop, which returned when it connected, makes no further attempt,
\* no read loop is started and no message is received.
C20_DisconnectedIsTerminal ==
    [][ /\ TransportError => (rPc' = "ended" /\ ~is_connected')
        /\ (rPc = "ended")
              => (/\ rPc' = "ended"
                  /\ ~is_connected'
                  /\ kPc = "done"
                  /\ kPc' = "done"
                  /\ attempt' = attempt
                  /\ offset' = offset)
      ]_vars

\* The read loop ended on a transport error after a connect that needed
\* retries, and the broker is reachable.
C20_Witness ==
    /\ rPc = "ended"
    /\ ~is_connected
    /\ kPc = "done"
    /\ cur = BeatValid
    /\ offset = 1
    /\ failsInRun > 0
    /\ brokerUp
    /\ consumer = "started"

\* C21: stop() closes the consumer only once the read task it found running
\* has been cancelled and has ended, and the producer after that; the ended
\* task never resumes, and a read task only ever reads or handles a message on
\* a consumer that is started.
C21_StopCancelsBeforeClosing ==
    [][ /\ (consumer = "started" /\ consumer' = "stopped")
              => (rPc \notin Running /\ rPc' \notin Running)
        /\ (StopBegin /\ rPc \in Running)
              => (sPc' = "awaitTask" /\ consumer' = consumer /\ producer' = producer)
        /\ TaskCancelled => (consumer' = "started" /\ producer' = "started")
        /\ (StopProducer /\ rPc = "cancelled") => consumer = "stopped"
        /\ (rPc = "cancelled") => (rPc' = "cancelled" /\ offset' = offset /\ httpCalls' = httpCalls)
        /\ (rPc' \in Running) => (consumer' = "started")
      ]_vars

\* stop() completed after cancelling a read task that was waiting for the
\* outcome of an outbound call.
C21_Witness ==
    /\ sPc = "done"
    /\ rPc = "cancelled"
    /\ consumer = "stopped"
    /\ producer = "stopped"
    /\ ~is_connected
    /\ cur = BeatValid
    /\ httpCalls = 1

\* The check of line 260 finds no publishing channel.
ChannelUnavailable == ~is_connected \/ producer = "None"

\* C22: a dead-letter record that cannot be published, because the channel is
\* unavailable when _send_to_dlq is called or because the publish fails, is
\* dropped: nothing is added to the dead-letter topic, nothing is kept for
\* later, no error reaches the read loop, whose connection state is unchanged,
\* and the loop waits for the next message.
C22_UnpublishableRecordDropped ==
    [][ /\ DlqSent(FALSE)
              => (/\ rPc' = "wait"
                  /\ dlqTopic' = dlqTopic
                  /\ pendingDlq' = NoDlq
                  /\ is_connected' = is_connected)
        /\ \A m \in Messages :
              (/\ ChannelUnavailable
               /\ Handled(m).to = "raise"
               /\ ~StrictDecodeRaises(m)
               /\ Receive(m))
              => (/\ rPc' = "wait"
                  /\ dlqTopic' = dlqTopic
                  /\ pendingDlq' = NoDlq
                  /\ is_connected' = is_connected)
        /\ \A r \in HttpOutcomes :
              (/\ ChannelUnavailable
               /\ httpCalls = 2
               /\ r \notin {"200", "201"}
               /\ Post(r))
              => (/\ rPc' = "wait"
                  /\ dlqTopic' = dlqTopic
                  /\ pendingDlq' = NoDlq
                  /\ is_connected' = is_connected)
      ]_vars

\* The publish of the record of a malformed message failed, and the read loop
\* is connected and waiting for the next message.
C22_Witness ==
    /\ cur = BadJson
    /\ offset = 1
    /\ rPc = "wait"
    /\ dlqTopic = <<>>
    /\ pendingDlq = NoDlq
    /\ is_connected
    /\ sPc = "idle"

\* The message decodes to an event object (the empty event of a message
\* without value included) whose type is not BEAT_CREATED or is missing.
UnsupportedType(m) ==
    \/ RawValueFalsy(m)
    \/ (m.value = "bytes" /\ m.json = "object" /\ m.type # "BEAT_CREATED")

\* C23: an event object whose type is not a supported one, or that has no
\* type, is a no-op: no outbound call is made or due, nothing is handed to the
\* dead-letter sink, no error ends the read loop, and the loop waits for the
\* next message.
C23_UnknownTypeIsNoOp ==
    [][ \A m \in Messages :
          (UnsupportedType(m) /\ Receive(m))
          => (/\ rPc' = "wait"
              /\ httpCalls' = 0
              /\ pendingDlq' = NoDlq
              /\ dlqTopic' = dlqTopic
              /\ is_connected' = is_connected)
      ]_vars

\* An event without type was received as the second message, and the loop waits.
C23_Witness ==
    /\ cur = NoTypeEvent
    /\ offset = 2
    /\ rPc = "wait"
    /\ httpCalls = 0
    /\ dlqTopic = <<>>
    /\ last_exc = "none"
    /\ is_connected
    /\ consumer = "started"

(***************************************************************************)
(* Claims about rate limiting                                              *)
(***************************************************************************)
\* A retryAfter that is a positive number of seconds
PositiveRetryAfter == { <<ToString(n)>> : n \in 1..3600 }

\* C10: a request that finds more than the quota already counted for its key
\* in the window is answered 429, and every 429 carries a positive retryAfter.
C10_OverQuotaRejectedWithRetryAfter ==
    [][ \A request \in Callers :
          LimitedRequest(request)
          => /\ (/\ StorageReachable
                 /\ rlCount[get_user_identifier(request)]
                       >= EndpointLimit(rlEndpoint, request).count)
                => rlResponse'.status = 429
             /\ (rlResponse'.status = 429) => (rlResponse'.retryAfter \in PositiveRetryAfter)
      ]_vars

\* C11: a request counted for one caller's identity key leaves the count of
\* every other caller unchanged, its own admit decision, when the storage
\* answers, depends on the count of its own key only, and the key of a caller with request.state.user
\* ("user:" + id) differs from the key of every caller without it
\* ("ip:" + address), also when both come from one address.
C11_KeysDoNotShareQuota ==
    [][ \A request \in Callers :
          LimitedRequest(request)
          => /\ \A other \in Callers \ {request} :
                    /\ get_user_identifier(other) # get_user_identifier(request)
                    /\ rlCount'[get_user_identifier(other)] = rlCount[get_user_identifier(other)]
             /\ StorageReachable
                    => ((rlResponse'.status = 429)
                           <=> (rlCount[get_user_identifier(request)]
                                   >= EndpointLimit(rlEndpoint, request).count))
             /\ \A a, b \in Callers :
                    (HasUser(a) /\ ~HasUser(b))
                    => get_user_identifier(a) # get_user_identifier(b)
      ]_vars

\* user:u1 is over its quota of 20/minute and was rejected, and the request of
\* user:u2 that came next was allowed.
C11_Witness ==
    /\ rlEndpoint = "dynamic"
    /\ rlCount["user:u1"] = 21
    /\ rlCount["user:u2"] = 1
    /\ rlCount["ip:10.0.0.1"] = 11
    /\ rlResponse = Ok200

\* C12: when the Redis server does not answer the ping of the startup, the
\* limiter counts in the in-process store from then on: every later request
\* is checked against "memory://", whatever the server does afterwards, and no
\* request changes the storage the limiter uses.
C12_FallbackStoreChosenAtStartup ==
    [][ /\ (InitRedis /\ ~redisUp) => storage_uri' = "memory://"
        /\ \A request \in Callers :
              LimitedRequest(request)
              => /\ storage_uri' = storage_uri
                 /\ (redis_client = "None") => (storage_uri = "memory://" /\ rlResponse'.status # 500)
      ]_vars

\* The plans of the tier table: free, pro/basic, studio, enterprise
TierPlans == {"free", "pro", "basic", "studio", "enterprise"}

\* C24: a request without user gets the key "ip:" + address and the quota
\* 10/minute, lower than every quota of the tier table; a request with a user
\* gets the key "user:" + id and the quota of its plan for each plan of the
\* tier table (free, pro/basic, studio, enterprise), above the free quota for
\* the paid ones, and the free quota when its plan is not in the table.
C24_QuotaFor ==
    (qKey # "")
    => IF ~HasUser(qRequest)
       THEN /\ qKey = "ip:" \o qRequest.ip
            /\ qLimit = Limit(10, 1, "minute")
            /\ \A plan \in {"free", "pro", "studio"} : qLimit.count < PlanLimit(plan).count
       ELSE /\ qKey = "user:" \o qRequest.user.userId
            /\ (qRequest.user.pricingPlan \in {"free", "pro", "studio"})
                  => qLimit = PlanLimit(qRequest.user.pricingPlan)
            /\ (qRequest.user.pricingPlan \in TierPlans \ {"free"})
                  => qLimit.count > PlanLimit("free").count
            /\ (qRequest.user.pricingPlan \notin TierPlans)
                  => qLimit = PlanLimit("free")

\* C25: on the endpoint that declares a short-window and a long-window quota
\* a request is allowed only if it is within both; a request that exceeds
\* either one is rejected with 429.
C25_EveryDeclaredQuotaEnforced ==
    [][ MultipleLimitedRequest
          => LET key == get_user_identifier(MultipleCaller)
             IN  /\ (rlResponse'.status = 200)
                       <=> (/\ rlCount[key] < MultipleLimits[1].count
                            /\ rlCountLong[key] < MultipleLimits[2].count)
                 /\ (rlResponse'.status = 429)
                       <=> (\/ rlCount[key] >= MultipleLimits[1].count
                            \/ rlCountLong[key] >= MultipleLimits[2].count)
      ]_vars

\* A request within the short-window quota was rejected because the
\* long-window quota was used up.
C25_Witness ==
    /\ rlEndpoint = "multiple"
    /\ rlResponse.status = 429
    /\ rlCount["user:u1"] <= MultipleLimits[1].count
    /\ rlCountLong["user:u1"] > MultipleLimits[2].count

\* C26: the outcome of a request that was passed on is recorded once, when
\* its operation finishes: as a failure if the operation raised or answered
\* with a status of 500 or more, as a success otherwise (404 and 429 are
\* successes); nothing is recorded while no passed-on request is outstanding.
C26_OutcomeRecordedOnce ==
    [][ /\ (inflight' < inflight) =>
              /\ inflight' = inflight - 1
              /\ \A outcome \in Outcomes :
                    MiddlewareReturn(outcome) =>
                        IF outcome.raised \/ outcome.status >= 500
                        THEN /\ metrics'.failed_requests = metrics.failed_requests + 1
                             /\ last_failure_time' = now
                             /\ on_failure
                        ELSE /\ metrics' = metrics
                             /\ last_failure_time' = last_failure_time
                             /\ on_success
        /\ (metrics'.failed_requests # metrics.failed_requests)
              => (inflight > 0 /\ inflight' = inflight - 1)
      ]_vars

\* Two requests were passed on and both are recorded, one as a failure and
\* the later one as a success that took the failure count back to zero.
C26_Witness ==
    /\ inflight = 0
    /\ metrics.total_requests = 2
    /\ metrics.failed_requests = 1
    /\ metrics.rejected_requests = 0
    /\ state = CLOSED
    /\ failure_count = 0

\* C27: a call is rejected only while the breaker is Open and at most timeout
\* has elapsed since the last recorded failure; the rejection counts one
\* rejected request and carries retry_after = timeout - (now - last_failure_time),
\* a value from 0 to timeout.
C27_RejectCarriesRetryAfter ==
    [][ \A path \in Paths : \A t2 \in SecondRead :
          (/\ response'.kind = "reject"
           /\ MiddlewareCall(path, t2))
          => /\ state = OPEN
             /\ last_failure_time # None
             /\ now' - last_failure_time <= timeout
             /\ response'.retry_after = timeout - (now' - last_failure_time)
             /\ response'.retry_after >= 0
             /\ response'.retry_after <= timeout
             /\ metrics'.rejected_requests = metrics.rejected_requests + 1
      ]_vars

C29_SuccessCountOnlyInHalfOpen ==
    /\ success_count >= 0
    /\ success_count < success_threshold
    /\ (state # HALF_OPEN) => (success_count = 0)

\* HalfOpen with one success still missing to close.
C29_Witness ==
    /\ state = HALF_OPEN
    /\ success_threshold = MaxSuccessThreshold
    /\ success_count = success_threshold - 1
    /\ success_count > 0

\* C30: a connect attempt that succeeds sets is_connected, sets attempt to 1,
\* starts the read loop, which did not exist before, and ends the connect
\* loop: once ended the loop makes no further attempt, and nothing else ever
\* starts a read loop.
C30_SuccessfulConnectExitsLoop ==
    [][ /\ KConnect
              => (/\ is_connected'
                  /\ attempt' = 1
                  /\ rPc = "none" /\ rPc' = "wait"
                  /\ kPc' = "done")
        /\ (rPc = "none" /\ rPc' # "none") => KConnect
        /\ (rPc # "none") => (rPc' # "none" /\ ~KConnect)
        /\ (kPc = "done")
              => (kPc' = "done" /\ attempt' = attempt /\ failsInRun' = failsInRun)
      ]_vars

\* The second attempt succeeded: attempt is back at 1, the loop has ended and
\* the read loop waits for its first message.
C30_Witness ==
    /\ max_retries = MaxRetries
    /\ failsInRun = 1
    /\ is_connected
    /\ attempt = 1
    /\ kPc = "done"
    /\ rPc = "wait"
    /\ offset = 0
    /\ sPc = "idle"

\* The fields and metrics of the breaker keep their values in this step.
BreakerUntouched ==
    /\ state' = state
    /\ failure_count' = failure_count
    /\ success_count' = success_count
    /\ last_failure_time' = last_failure_time
    /\ metrics' = metrics

\* C31: a request on an excluded path leaves state, failure_count,
\* success_count, last_failure_time and the metrics as they are, both when
\* it is passed on and when its outcome is recorded; the outcome recorded
\* while no other request was ever counted is that of an excluded path.
C31_ExcludedPathHasNoEffect ==
    [][ /\ (metrics.total_requests = 0 /\ inflight' < inflight) => BreakerUntouched
        /\ \A path \in Paths : \A t2 \in SecondRead :
              (HoldsExcluded(path) /\ MiddlewareCall(path, t2)) => BreakerUntouched
      ]_vars

\* A step that records a failure, and one that records a success
FailureRecorded ==
    /\ inflight' = inflight - 1
    /\ metrics'.failed_requests = metrics.failed_requests + 1

SuccessRecorded ==
    /\ inflight' = inflight - 1
    /\ metrics' = metrics

\* C32: the state changes only from Closed to Open and from HalfOpen to Open
\* when a failure is recorded, from Open to HalfOpen when a call is passed on
\* after the timeout, and from HalfOpen to Closed when a success is recorded;
\* recording an outcome never changes an Open breaker's state.
C32_OnlyFourTransitions ==
    [][ /\ (state' # state)
              => \/ state = CLOSED /\ state' = OPEN /\ FailureRecorded
                 \/ state = HALF_OPEN /\ state' = OPEN /\ FailureRecorded
                 \/ state = HALF_OPEN /\ state' = CLOSED /\ SuccessRecorded
                 \/ /\ state = OPEN /\ state' = HALF_OPEN
                    /\ TimeoutElapsed(now)
                    /\ response' = Allow
                    /\ inflight' = inflight + 1
                    /\ metrics'.total_requests = metrics.total_requests + 1
        /\ (state = OPEN /\ inflight' < inflight) => state' = OPEN
      ]_vars

\* A request passed on before the breaker opened finished while it was Open,
\* and the breaker is still Open.
C32_Witness ==
    /\ state = OPEN
    /\ inflight = 0
    /\ failure_threshold = 1
    /\ metrics.failed_requests = 1
    /\ metrics.total_requests = 2
    /\ metrics.rejected_requests = 0
    /\ failure_count = 1
    /\ failRun = 0

\* C33: the successes counted in a HalfOpen episode are those of requests
\* passed on in that episode, so there are never more of them than of such
\* requests; a request passed on before the episode does not count.
C33_OnlyEpisodeRequestsCount ==
    [][ (state = HALF_OPEN /\ MiddlewareSuccess)
        => (succRun + 1 <= admittedRun /\ success_count + 1 <= admittedRun)
      ]_vars

\* C34: in every reachable state rejected_requests <= total_requests and
\* failed_requests + rejected_requests <= total_requests: each counted failure
\* and each counted rejection belongs to a counted request of its own.
C34_MetricsWithinTotal ==
    /\ metrics.rejected_requests <= metrics.total_requests
    /\ metrics.failed_requests + metrics.rejected_requests <= metrics.total_requests

\* C35: no received message has more than one record on the dead-letter
\* topic, whichever path led to the record: the records belong to different
\* messages, and a step adds at most one record, for the message in hand.
C35_AtMostOneDeadLetterPerMessage ==
    /\ \A i, j \in DOMAIN dlqTopic : (i # j) => (dlqTopic[i].offset # dlqTopic[j].offset)
    /\ \A i \in DOMAIN dlqTopic : dlqTopic[i].offset \in 1..offset
    /\ Len(dlqTopic) <= offset

\* Two messages, two records: the first failed to decode, the second ran out
\* of outbound attempts.
C35_Witness ==
    /\ offset = 2
    /\ Len(dlqTopic) = 2
    /\ dlqTopic[1].offset = 1
    /\ dlqTopic[1].error = "JSONDecodeError"
    /\ dlqTopic[2].offset = 2
    /\ httpCalls = 3
    /\ rPc = "wait"

\* C36: a connect attempt that fails leaves neither a started consumer nor a
\* started producer behind, also when the consumer had started before the
\* producer's start or the subscribe failed.
C36_FailedAttemptLeavesNoClient ==
    [][ \A point \in FailurePoints :
          KConnectFails(point) => (consumer' # "started" /\ producer' # "started")
      ]_vars

\* C37: once stop() has completed the service is never connected again and
\* no read loop is running or gets started, wherever the connect loop was
\* when stop() was called.
C37_StoppedStaysStopped ==
    (sPc = "done") => (~is_connected /\ rPc \notin Running)

====
